---------------------------- MODULE Spec2Model ----------------------------
(***************************************************************************)
(* The aggregation pipelines of the F1 dashboards:                         *)
(*   qualydash.py  best lap per driver, gap to pole / gap to teammate,     *)
(*                 fmt_time;                                               *)
(*   racedash.py   season points (max-collapse, running total, season      *)
(*                 total) and the LapTime -> LapTimeSeconds conversion.    *)
(*   ingest.py     get_data_for_years: the frames accumulated over the     *)
(*                 years and the two CSV files rewritten after each year.  *)
(* Durations are whole milliseconds (the float seconds of the code times   *)
(* 1000); a missing float (NaN / None) is the empty sequence and a present *)
(* one a one-element sequence.                                             *)
(***************************************************************************)
EXTENDS Integers, Sequences, FiniteSets, TLC

VARIABLES
    pc,          \* position of the script being run
    err,         \* the exception that ended the run, "" when none
    gap_mode,    \* qualydash sidebar: "Gap to Pole" | "Gap to Teammate"
    sort_mode,   \* qualydash sidebar: "Classification" | "Biggest Gap"
    df,          \* the rows of the CSV that the script works on (never written)
    session,     \* qualydash `session`: the lap rows, parsed and filtered in place
    best,        \* qualydash `best`: the best-lap table
    max_gap,     \* qualydash `max_gap`, in milliseconds
    gap_strs,    \* qualydash `gap_str` of every rendered row, in display order
    year_df,         \* racedash `year_df`: the lap rows of the selected year
    season_results,  \* racedash `season_results`
    current_stats,   \* racedash `current_stats`: season_results of the selected session
    race_session,    \* racedash `session`: the lap rows of the selected session
    total_times,     \* racedash `total_times`: TotalRaceTime per driver
    fmt_s,           \* the argument of a call of fmt_time
    fmt_out,         \* the text the call returned, one character per element
    year,            \* ingest `year` of the loop of get_data_for_years
    rnd,             \* ingest: position in completed_events of the event processed next
    all_race_laps,   \* ingest `all_race_laps`: the frames loaded so far
    all_sprint_laps, \* ingest `all_sprint_laps`
    race_csv,        \* the rows of race_laps_2024_onwards.csv on disk
    sprint_csv,      \* the rows of sprint_laps_2024_onwards.csv on disk
    csv_at_year_start \* what both files held when the processing of `year` began

qualy_vars == <<gap_mode, sort_mode, df, session, best, max_gap, gap_strs>>

season_vars == <<year_df, season_results, current_stats>>

race_vars == <<race_session, total_times>>

fmt_vars == <<fmt_s, fmt_out>>

ingest_vars == <<year, rnd, all_race_laps, all_sprint_laps, race_csv, sprint_csv, csv_at_year_start>>

vars == <<pc, err, qualy_vars, season_vars, race_vars, fmt_vars, ingest_vars>>

\* The state of ingest.py in a run of a dashboard: get_data_for_years not called
IngestNotRun ==
    /\ year = 0
    /\ rnd = 0
    /\ all_race_laps = <<>>
    /\ all_sprint_laps = <<>>
    /\ race_csv = <<>>
    /\ sprint_csv = <<>>
    /\ csv_at_year_start = <<<<>>, <<>>>>

-----------------------------------------------------------------------------
(* Bounds of the checked instances *)

MaxLaps == 3        \* lap rows in one session (qualifying, race)
MaxTime == 3        \* valid lap times are 1..MaxTime milliseconds
MaxRows == 3        \* lap rows in one season table
FmtMaxMs == 70000   \* fmt_time is called on every duration of 0..FmtMaxMs milliseconds
MaxEvents == 2      \* completed events in the schedule of one year

-----------------------------------------------------------------------------
(* Cells of the CSV as pandas reads them *)

None == <<>>
Some(x) == <<x>>
IsNa(o) == o = None
Val(o) == o[1]

\* A LapTime cell of the CSV: an empty field is read as NaN by read_csv, any
\* other field is a string, which either is a timedelta text or is not.
NaNCell == [kind |-> "nan", ms |-> 0, text |-> ""]
Malformed == [kind |-> "str", ms |-> 0, text |-> "abc"]
Timedelta(t) == [kind |-> "str", ms |-> t, text |-> "timedelta"]

\* pd.to_timedelta(t) raises on a string that is no timedelta text
ToTimedeltaRaises(t) == t.kind = "str" /\ t.text /= "timedelta"

\* qualydash.parse_time
parse_time(t) ==
    IF t.kind = "nan" \/ (t.kind = "str" /\ t.text = "") THEN None
    ELSE IF ToTimedeltaRaises(t) THEN None      \* bare except: return None
    ELSE Some(t.ms)

-----------------------------------------------------------------------------
(* Sequence helpers *)

Range(s) == {s[i] : i \in DOMAIN s}

Perms(n) == {p \in [1..n -> 1..n] : \A i, j \in 1..n : p[i] = p[j] => i = j}

Permute(s, p) == [i \in 1..Len(s) |-> s[p[i]]]

\* The permutations of the rows of a table of the qualifying / season pipeline
LapPerms == [n \in 0..MaxLaps |-> Perms(n)]

RowPerms == [n \in 0..MaxRows |-> Perms(n)]

-----------------------------------------------------------------------------
(* qualydash.py: the lap rows of the selected event *)

Drivers == {"VER", "PER", "LAW", "NOR"}

\* The Team column: one team per driver within a session
TeamOf(d) == IF d = "NOR" THEN "McLaren" ELSE "Red Bull Racing"

LapTimeCells == {NaNCell, Malformed} \cup {Timedelta(t) : t \in 1..MaxTime}

LapRows == {[Driver |-> d, Team |-> TeamOf(d), LapTime |-> c] :
                d \in Drivers, c \in LapTimeCells}

LapTables == UNION {[1..n -> LapRows] : n \in 0..MaxLaps}

\* lines 95-96: session[col] = session[col].apply(parse_time)
ApplyParseTime(s) == [i \in 1..Len(s) |-> [s[i] EXCEPT !.LapTime = parse_time(@)]]

\* line 98: session.dropna(subset=["LapTime"])
DropNaLapTime(s) == SelectSeq(s, LAMBDA r : ~IsNa(r.LapTime))

\* Mutant of SortValuesLapTime: the rows are left in file order
SortValuesLapTime_Unsorted(s) == {s}

\* sort_values("LapTime"): every row order that is non-decreasing in LapTime
\* (the default quicksort leaves the order of equal keys open)
SortValuesLapTime(s) ==
    {Permute(s, p) : p \in {q \in LapPerms[Len(s)] :
        \A i, j \in 1..Len(s) : i < j => Val(s[q[i]].LapTime) <= Val(s[q[j]].LapTime)}}

\* Mutant of DropDuplicatesDriver: every row is kept
DropDuplicatesDriver_KeepAll(s) == s

\* drop_duplicates("Driver"): the first row of each driver is kept
RECURSIVE DropDuplicatesDriver(_)
DropDuplicatesDriver(s) ==
    IF s = <<>> THEN <<>>
    ELSE LET init == DropDuplicatesDriver(SubSeq(s, 1, Len(s) - 1))
             last == s[Len(s)]
         IN IF \E i \in 1..(Len(s) - 1) : s[i].Driver = last.Driver
            THEN init ELSE Append(init, last)

\* lines 101-103: reset_index and Q_Pos = index + 1
WithQPos(s) == [i \in 1..Len(s) |->
    [Driver |-> s[i].Driver, Team |-> s[i].Team,
     LapTime |-> Val(s[i].LapTime), Q_Pos |-> i, Gap |-> None]]

BestTables(s) == {WithQPos(DropDuplicatesDriver(t)) : t \in SortValuesLapTime(s)}

Abs(x) == IF x < 0 THEN 0 - x ELSE x

Max(S) == CHOOSE x \in S : \A y \in S : y <= x

Min(S) == CHOOSE x \in S : \A y \in S : x <= y

\* The LapTime column of sort_values("LapTime") of the rows idx of table b
SortedLapTimes(b, idx) ==
    LET n == Cardinality(idx)
        f == CHOOSE g \in [1..n -> idx] :
                /\ \A i, j \in 1..n : g[i] = g[j] => i = j
                /\ \A i, j \in 1..n : i < j => b[g[i]].LapTime <= b[g[j]].LapTime
    IN [i \in 1..n |-> b[f[i]].LapTime]

\* Mutant of PoleGaps: the reference is the last row instead of the first
PoleGaps_LastRow(b) ==
    LET pole == b[Len(b)].LapTime
    IN [i \in 1..Len(b) |-> [b[i] EXCEPT !.Gap = Some(b[i].LapTime - pole)]]

\* lines 115-116: pole = best.iloc[0]["LapTime"]; Gap = LapTime - pole
PoleGaps(b) ==
    LET pole == b[1].LapTime
    IN [i \in 1..Len(b) |-> [b[i] EXCEPT !.Gap = Some(b[i].LapTime - pole)]]

\* Mutant of TeammateGap: every member is compared with the fastest member
TeammateGap_AlwaysFastest(b, i) ==
    LET team == {k \in 1..Len(b) : b[k].Team = b[i].Team}
    IN IF Cardinality(team) > 1
       THEN b[i].LapTime - Min({b[k].LapTime : k \in team})
       ELSE 0

\* lines 121-132: the gap of one row in "Gap to Teammate" mode
TeammateGap(b, i) ==
    LET team_laps == SortedLapTimes(b, {k \in 1..Len(b) : b[k].Team = b[i].Team})
    IN IF Len(team_laps) > 1
       THEN LET fastest_in_team == team_laps[1]
            IN IF b[i].LapTime = fastest_in_team
               THEN b[i].LapTime - team_laps[2]
               ELSE b[i].LapTime - fastest_in_team
       ELSE 0

\* lines 120-134
TeammateGaps(b) == [i \in 1..Len(b) |-> [b[i] EXCEPT !.Gap = Some(TeammateGap(b, i))]]

\* lines 136-137: sort_values("AbsGap", ascending=False), equal keys in any order
SortBiggestGap(b) ==
    {Permute(b, p) : p \in {q \in LapPerms[Len(b)] :
        \A i, j \in 1..Len(b) :
            i < j => Abs(Val(b[q[i]].Gap)) >= Abs(Val(b[q[j]].Gap))}}

-----------------------------------------------------------------------------
(* Number formatting of the f-strings *)

Digit(n) == <<"0", "1", "2", "3", "4", "5", "6", "7", "8", "9">>[n + 1]

\* str of a non-negative integer
RECURSIVE Digits(_)
Digits(n) == IF n < 10 THEN <<Digit(n)>> ELSE Append(Digits(n \div 10), Digit(n % 10))

\* f"{sec:.3f}" of a float that is a whole number ms of milliseconds
Format3f(ms) ==
    Digits(ms \div 1000) \o <<".", Digit((ms \div 100) % 10), Digit((ms \div 10) % 10), Digit(ms % 10)>>

\* f"{x:.3f}" of a float that is a whole number ms of milliseconds, of either sign
SignedFormat3f(ms) == IF ms < 0 THEN <<"-">> \o Format3f(0 - ms) ELSE Format3f(ms)

\* f"{x:+.3f}": the sign is always written
PlusFormat3f(ms) == IF ms < 0 THEN <<"-">> \o Format3f(0 - ms) ELSE <<"+">> \o Format3f(ms)

-----------------------------------------------------------------------------
(* qualydash.py as a run of the script *)

InitQualy ==
    /\ pc = "loaded"
    /\ err = ""
    /\ gap_mode = ""
    /\ sort_mode = ""
    /\ df \in LapTables
    /\ session = df            \* line 86: session = df[...].copy()
    /\ best = <<>>
    /\ max_gap = 1000
    /\ gap_strs = <<>>
    /\ year_df = <<>>
    /\ season_results = <<>>
    /\ current_stats = <<>>
    /\ race_session = <<>>
    /\ total_times = <<>>
    /\ fmt_s = None
    /\ fmt_out = <<>>
    /\ IngestNotRun

\* lines 95-98
ParseTimes ==
    /\ pc = "loaded"
    /\ session' = DropNaLapTime(ApplyParseTime(session))
    /\ pc' = "parsed"
    /\ UNCHANGED <<err, gap_mode, sort_mode, df, best, max_gap, gap_strs, season_vars, race_vars, fmt_vars, ingest_vars>>

\* lines 101-103
BestLap ==
    /\ pc = "parsed"
    /\ best' \in BestTables(session)
    /\ pc' = "best"
    /\ UNCHANGED <<err, gap_mode, sort_mode, df, session, max_gap, gap_strs, season_vars, race_vars, fmt_vars, ingest_vars>>

\* lines 114-118
GapToPole ==
    /\ pc = "best"
    /\ gap_mode' = "Gap to Pole"
    /\ sort_mode' = "Classification"
    /\ IF best = <<>>
       THEN \* best.iloc[0] on an empty frame: IndexError
            /\ err' = "IndexError"
            /\ pc' = "raised"
            /\ UNCHANGED <<best, max_gap>>
       ELSE /\ best' = PoleGaps(best)
            /\ max_gap' = LET m == Max({Val(best'[i].Gap) : i \in 1..Len(best)})
                          IN IF m = 0 THEN 1000 ELSE m
            /\ pc' = "gaps"
            /\ err' = err
    /\ UNCHANGED <<df, session, gap_strs, season_vars, race_vars, fmt_vars, ingest_vars>>

\* lines 119-137
GapToTeammate ==
    /\ pc = "best"
    /\ gap_mode' = "Gap to Teammate"
    /\ \E sm \in {"Classification", "Biggest Gap"} :
          /\ sort_mode' = sm
          /\ IF sm = "Biggest Gap"
             THEN best' \in SortBiggestGap(TeammateGaps(best))
             ELSE best' = TeammateGaps(best)
    /\ pc' = "gaps"
    /\ UNCHANGED <<err, df, session, max_gap, gap_strs, season_vars, race_vars, fmt_vars, ingest_vars>>

\* lines 160-167: the gap label of one row, chosen by the value of the gap
gap_str(mode, gap_val) ==
    IF mode = "Gap to Pole"
    THEN IF gap_val = 0 THEN <<"P", "O", "L", "E">>
         ELSE <<"+">> \o SignedFormat3f(gap_val) \o <<"s">>
    ELSE IF gap_val /= 0 THEN PlusFormat3f(gap_val) \o <<"s">> ELSE <<"-">>

\* lines 155-167: for _, row in best.iterrows()
Render ==
    /\ pc = "gaps"
    /\ gap_strs' = [i \in 1..Len(best) |-> gap_str(gap_mode, Val(best[i].Gap))]
    /\ pc' = "rendered"
    /\ UNCHANGED <<err, gap_mode, sort_mode, df, session, best, max_gap, season_vars, race_vars, fmt_vars, ingest_vars>>

NextQualy == ParseTimes \/ BestLap \/ GapToPole \/ GapToTeammate \/ Render

SpecQualy == InitQualy /\ [][NextQualy]_vars

-----------------------------------------------------------------------------
(* racedash.py: season points, lines 119-139 *)

SeasonDrivers == {"NOR", "VER"}

\* The order groupby and sort_values put the Driver strings in
DriverRank(d) == IF d = "NOR" THEN 1 ELSE 2

\* The rounds of the season
Rounds == 1..3

\* Rounds with a sprint session besides the race
SprintRounds == {2}

SessionsOf(r) == IF r \in SprintRounds THEN {"Sprint", "Race"} ELSE {"Race"}

\* OfficialPoints cells: NaN when no result was merged for the driver
PointsCells == {None, Some(18), Some(25)}

SeasonRows == {[Driver |-> d, RoundNumber |-> r, Session |-> x, OfficialPoints |-> c] :
                 d \in SeasonDrivers, r \in Rounds, x \in {"Sprint", "Race"},
                 c \in PointsCells}

SeasonTables == UNION {[1..n -> {w \in SeasonRows : w.Session \in SessionsOf(w.RoundNumber)}] :
                         n \in 0..MaxRows}

\* lines 119-120
get_session_order(x) == IF x = "Sprint" THEN 1 ELSE 2

\* max of two float cells, NaN skipped
MaxSkipNa(a, c) ==
    IF IsNa(a) THEN c
    ELSE IF IsNa(c) THEN a
    ELSE IF Val(a) >= Val(c) THEN a ELSE c

\* Mutant of GroupMax: the group is collapsed by sum instead of max
RECURSIVE GroupMax_Sum(_, _, _, _)
GroupMax_Sum(t, d, r, x) ==
    IF t = <<>> THEN None
    ELSE LET w == Head(t)
             rest == GroupMax_Sum(Tail(t), d, r, x)
         IN IF w.Driver = d /\ w.RoundNumber = r /\ w.Session = x
            THEN IF IsNa(w.OfficialPoints) THEN rest
                 ELSE IF IsNa(rest) THEN w.OfficialPoints
                 ELSE Some(Val(w.OfficialPoints) + Val(rest))
            ELSE rest

\* line 125: ["OfficialPoints"].max() of the rows of group (d, r, x), in row order
RECURSIVE GroupMax(_, _, _, _)
GroupMax(t, d, r, x) ==
    IF t = <<>> THEN None
    ELSE LET w == Head(t)
             rest == GroupMax(Tail(t), d, r, x)
         IN IF w.Driver = d /\ w.RoundNumber = r /\ w.Session = x
            THEN MaxSkipNa(w.OfficialPoints, rest)
            ELSE rest

\* The group keys of groupby(["Driver", "RoundNumber", "SessionOrder", "Session"])
GroupKeys(t) == {<<t[i].Driver, t[i].RoundNumber, t[i].Session>> : i \in 1..Len(t)}

\* line 126: sort_values(by=["RoundNumber", "SessionOrder"]) is stable, so rows
\* equal in both keep groupby's order, which is by Driver first
KeyBefore(k1, k2) ==
    \/ k1[2] < k2[2]
    \/ k1[2] = k2[2] /\ get_session_order(k1[3]) < get_session_order(k2[3])
    \/ k1[2] = k2[2] /\ get_session_order(k1[3]) = get_session_order(k2[3])
          /\ DriverRank(k1[1]) < DriverRank(k2[1])

\* The keys K in the order of KeyBefore
RECURSIVE SortKeys(_)
SortKeys(K) ==
    IF K = {} THEN <<>>
    ELSE LET first == CHOOSE k \in K : \A o \in K \ {k} : KeyBefore(k, o)
         IN <<first>> \o SortKeys(K \ {first})

\* lines 125-126: the collapsed groups in (RoundNumber, SessionOrder) order
GroupedSorted(t) ==
    LET f == SortKeys(GroupKeys(t))
    IN [i \in 1..Len(f) |->
          [Driver |-> f[i][1], RoundNumber |-> f[i][2],
           SessionOrder |-> get_session_order(f[i][3]), Session |-> f[i][3],
           OfficialPoints |-> GroupMax(t, f[i][1], f[i][2], f[i][3])]]

\* line 129: groupby("Driver")["OfficialPoints"].cumsum() at row i: NaN rows
\* stay NaN and are skipped by the running sum
RECURSIVE CumSumBefore(_, _, _)
CumSumBefore(g, d, i) ==
    IF i = 0 THEN 0
    ELSE CumSumBefore(g, d, i - 1) +
         (IF g[i].Driver = d /\ ~IsNa(g[i].OfficialPoints) THEN Val(g[i].OfficialPoints) ELSE 0)

RunningTotalAt(g, i) ==
    IF IsNa(g[i].OfficialPoints) THEN None ELSE Some(CumSumBefore(g, g[i].Driver, i))

\* Mutant of SeasonTotalOf: the last group of the season is left out
SeasonTotalOf_DropLast(g, d) == CumSumBefore(g, d, Len(g) - 1)

\* line 130: groupby("Driver")["OfficialPoints"].transform("sum"): NaN counts 0
SeasonTotalOf(g, d) == CumSumBefore(g, d, Len(g))

\* lines 125-130
SeasonResults(t) ==
    LET g == GroupedSorted(t)
    IN [i \in 1..Len(g) |->
          [Driver |-> g[i].Driver, RoundNumber |-> g[i].RoundNumber,
           SessionOrder |-> g[i].SessionOrder, Session |-> g[i].Session,
           OfficialPoints |-> g[i].OfficialPoints,
           RunningTotal |-> RunningTotalAt(g, i),
           SeasonTotal |-> SeasonTotalOf(g, g[i].Driver)]]

\* line 100: year_df.sort_values(by=["RoundNumber"]), equal rounds in any order
SortValuesRound(t) ==
    {Permute(t, p) : p \in {q \in RowPerms[Len(t)] :
        \A i, j \in 1..Len(t) : i < j => t[q[i]].RoundNumber <= t[q[j]].RoundNumber}}

\* lines 173-175, format_pts: the number the rendered text denotes (NaN is
\* rendered "0", a whole number of points as its digits)
format_pts(p) == IF IsNa(p) THEN 0 ELSE Val(p)

\* lines 136-139
CurrentStats(res, current_round, current_order) ==
    SelectSeq(res, LAMBDA w : w.RoundNumber = current_round /\ w.SessionOrder = current_order)

\* lines 119-139 for the rows t of the year and the selected (round, session)
RunSeason(t, current_round, selected_session_type) ==
    /\ season_results' = SeasonResults(t)
    /\ current_stats' = CurrentStats(season_results', current_round,
                                     get_session_order(selected_session_type))

InitSeason ==
    /\ pc = "loaded"
    /\ err = ""
    /\ gap_mode = ""
    /\ sort_mode = ""
    /\ df = <<>>
    /\ session = <<>>
    /\ best = <<>>
    /\ max_gap = 1000
    /\ gap_strs = <<>>
    /\ year_df \in SeasonTables
    /\ season_results = <<>>
    /\ current_stats = <<>>
    /\ race_session = <<>>
    /\ total_times = <<>>
    /\ fmt_s = None
    /\ fmt_out = <<>>
    /\ IngestNotRun

\* The (round, session) pairs the sidebar offers
Selectable(t) == {<<t[i].RoundNumber, t[i].Session>> : i \in 1..Len(t)}

\* lines 99-100: the rows of the year, sorted by RoundNumber
SortYear ==
    /\ pc = "loaded"
    /\ year_df' \in SortValuesRound(year_df)
    /\ pc' = "sorted"
    /\ UNCHANGED <<err, qualy_vars, season_results, current_stats, race_vars, fmt_vars, ingest_vars>>

\* lines 102-139 with one of the sessions of the sidebar selected
SeasonCalc ==
    /\ pc = "sorted"
    /\ \E sel \in Selectable(year_df) : RunSeason(year_df, sel[1], sel[2])
    /\ pc' = "calculated"
    /\ UNCHANGED <<err, qualy_vars, year_df, race_vars, fmt_vars, ingest_vars>>

\* A rerun of the script after the CSV gained a copy of one of its rows (an
\* upstream merge that repeats a lap row), with the same session selected
RerunWithDuplicate ==
    /\ pc \in {"calculated", "recalculated"}
    /\ Len(year_df) < MaxRows
    /\ \E i \in 1..Len(year_df), sel \in Selectable(year_df) :
          /\ current_stats = CurrentStats(season_results, sel[1], get_session_order(sel[2]))
          /\ year_df' \in SortValuesRound(Append(year_df, year_df[i]))
          /\ RunSeason(year_df', sel[1], sel[2])
    /\ pc' = "recalculated"
    /\ UNCHANGED <<err, qualy_vars, race_vars, fmt_vars, ingest_vars>>

NextSeason == SortYear \/ SeasonCalc \/ RerunWithDuplicate

SpecSeason == InitSeason /\ [][NextSeason]_vars

-----------------------------------------------------------------------------
(* racedash.py: lap times of the selected session, lines 142-148 *)

RaceRows == {[Driver |-> d, LapTime |-> c, LapTimeSeconds |-> None] :
               d \in SeasonDrivers, c \in LapTimeCells}

\* line 114: the script stops before the calculations when session is empty
RaceTables == UNION {[1..n -> RaceRows] : n \in 1..MaxLaps}

\* line 142: pd.to_timedelta(session["LapTime"]) raises ValueError when a cell
\* of the column is no timedelta text (errors="raise" is the default)
ColumnToTimedeltaRaises(t) == \E i \in 1..Len(t) : ToTimedeltaRaises(t[i].LapTime)

\* line 142: .dt.total_seconds(), NaN cells become NaT and then NaN
LapTimeSeconds(t) ==
    [i \in 1..Len(t) |->
        [t[i] EXCEPT !.LapTimeSeconds =
            IF t[i].LapTime.kind = "nan" THEN None ELSE Some(t[i].LapTime.ms)]]

\* line 147: groupby("Driver")["LapTimeSeconds"].sum(), NaN skipped
RECURSIVE SumSecondsOf(_, _)
SumSecondsOf(t, d) ==
    IF t = <<>> THEN 0
    ELSE (IF Head(t).Driver = d /\ ~IsNa(Head(t).LapTimeSeconds)
          THEN Val(Head(t).LapTimeSeconds) ELSE 0) + SumSecondsOf(Tail(t), d)

TotalTimes(t) ==
    LET ds == {t[i].Driver : i \in 1..Len(t)}
        n == Cardinality(ds)
        f == CHOOSE g \in [1..n -> ds] : \A i, j \in 1..n : i < j => DriverRank(g[i]) < DriverRank(g[j])
    IN [i \in 1..n |-> [Driver |-> f[i], TotalRaceTime |-> SumSecondsOf(t, f[i])]]

InitRace ==
    /\ pc = "loaded"
    /\ err = ""
    /\ gap_mode = ""
    /\ sort_mode = ""
    /\ df = <<>>
    /\ session = <<>>
    /\ best = <<>>
    /\ max_gap = 1000
    /\ gap_strs = <<>>
    /\ year_df = <<>>
    /\ season_results = <<>>
    /\ current_stats = <<>>
    /\ race_session \in RaceTables
    /\ total_times = <<>>
    /\ fmt_s = None
    /\ fmt_out = <<>>
    /\ IngestNotRun

\* lines 142-147
DisplayPrep ==
    /\ pc = "loaded"
    /\ IF ColumnToTimedeltaRaises(race_session)
       THEN /\ err' = "ValueError"
            /\ pc' = "raised"
            /\ UNCHANGED race_vars
       ELSE /\ race_session' = LapTimeSeconds(race_session)
            /\ total_times' = TotalTimes(race_session')
            /\ pc' = "prepared"
            /\ err' = err
    /\ UNCHANGED <<qualy_vars, season_vars, fmt_vars, ingest_vars>>

NextRace == DisplayPrep

SpecRace == InitRace /\ [][NextRace]_vars

-----------------------------------------------------------------------------
(* qualydash.py: fmt_time, lines 106-109 *)

RECURSIVE ZeroPad(_, _)
ZeroPad(txt, width) == IF Len(txt) >= width THEN txt ELSE ZeroPad(<<"0">> \o txt, width)

\* f"{sec:06.3f}": zero-padded to a width of 6 characters
Format06_3f(ms) == ZeroPad(Format3f(ms), 6)

\* Mutant of fmt_time: the seconds after the minutes are not zero-padded
fmt_time_NoPad(s) ==
    IF IsNa(s) THEN <<"-">>
    ELSE LET m == Val(s) \div 60000
             sec == Val(s) % 60000
         IN IF m > 0 THEN Digits(m) \o <<":">> \o Format3f(sec) ELSE Format3f(sec)

\* lines 106-109; divmod(s, 60) of whole milliseconds is exact
fmt_time(s) ==
    IF IsNa(s) THEN <<"-">>
    ELSE LET m == Val(s) \div 60000
             sec == Val(s) % 60000
         IN IF m > 0 THEN Digits(m) \o <<":">> \o Format06_3f(sec) ELSE Format3f(sec)

\* Durations beyond FmtMaxMs that are formatted too, up to one hour
LongDurations == {90123, 599999, 600000, 3599999}

InitFmt ==
    /\ pc = "loaded"
    /\ err = ""
    /\ gap_mode = ""
    /\ sort_mode = ""
    /\ df = <<>>
    /\ session = <<>>
    /\ best = <<>>
    /\ max_gap = 1000
    /\ gap_strs = <<>>
    /\ year_df = <<>>
    /\ season_results = <<>>
    /\ current_stats = <<>>
    /\ race_session = <<>>
    /\ total_times = <<>>
    /\ fmt_s \in {None} \cup {Some(ms) : ms \in (0..FmtMaxMs) \cup LongDurations}
    /\ fmt_out = <<>>
    /\ IngestNotRun

FmtTime ==
    /\ pc = "loaded"
    /\ fmt_out' = fmt_time(fmt_s)
    /\ pc' = "formatted"
    /\ UNCHANGED <<err, qualy_vars, season_vars, race_vars, fmt_s, ingest_vars>>

NextFmt == FmtTime

SpecFmt == InitFmt /\ [][NextFmt]_vars

-----------------------------------------------------------------------------
(* ingest.py: get_data_for_years, lines 15-104 *)

\* line 107: get_data_for_years(2024)
StartYear == 2024

\* line 17: datetime.now().year, on the date of the comment of line 16
CurrentYear == 2026

\* lines 62-77: the frame a loaded session returns, its lap rows tagged with
\* Year, RoundNumber and Session; one lap row stands for the laps of the session
SessionLaps(y, r, label) == <<[Year |-> y, RoundNumber |-> r, Session |-> label]>>

\* lines 54-79: the frame, or None when the session has no laps or loading raised
load_session(y, r, label, loaded) ==
    IF loaded THEN Some(SessionLaps(y, r, label)) ELSE None

\* pd.concat(frames): the rows of the frames, in list order
RECURSIVE concat(_)
concat(frames) == IF frames = <<>> THEN <<>> ELSE Head(frames) \o concat(Tail(frames))

\* What a to_csv that raises can leave of the file: the call truncates the file
\* when it opens it and writes the rows in order
PartialWrites(rows) == {SubSeq(rows, 1, n) : n \in 0..(Len(rows) - 1)}

InitIngest ==
    /\ pc = "year"
    /\ err = ""
    /\ gap_mode = ""
    /\ sort_mode = ""
    /\ df = <<>>
    /\ session = <<>>
    /\ best = <<>>
    /\ max_gap = 1000
    /\ gap_strs = <<>>
    /\ year_df = <<>>
    /\ season_results = <<>>
    /\ current_stats = <<>>
    /\ race_session = <<>>
    /\ total_times = <<>>
    /\ fmt_s = None
    /\ fmt_out = <<>>
    /\ year = StartYear          \* line 26
    /\ rnd = 0
    /\ all_race_laps = <<>>      \* line 20
    /\ all_sprint_laps = <<>>    \* line 21
    /\ race_csv = <<>>
    /\ sprint_csv = <<>>
    /\ csv_at_year_start = <<<<>>, <<>>>>

\* line 26: the loop goes on to the next year
NextYear ==
    /\ year' = year + 1
    /\ rnd' = 0
    /\ pc' = "year"
    /\ csv_at_year_start' = <<race_csv', sprint_csv'>>

\* lines 31-35: the schedule cannot be fetched; continue
FetchScheduleFails ==
    /\ pc = "year"
    /\ year <= CurrentYear
    /\ err' = ""
    /\ UNCHANGED <<all_race_laps, all_sprint_laps, race_csv, sprint_csv>>
    /\ UNCHANGED <<qualy_vars, season_vars, race_vars, fmt_vars>>
    /\ NextYear

\* lines 32-42: the schedule has no completed event; continue
NoCompletedEvents ==
    /\ pc = "year"
    /\ year <= CurrentYear
    /\ err' = ""
    /\ UNCHANGED <<all_race_laps, all_sprint_laps, race_csv, sprint_csv>>
    /\ UNCHANGED <<qualy_vars, season_vars, race_vars, fmt_vars>>
    /\ NextYear

\* lines 32-45: the schedule has completed events; the event loop begins
BeginEvents ==
    /\ pc = "year"
    /\ year <= CurrentYear
    /\ err' = ""
    /\ pc' = "events"
    /\ rnd' = 1
    /\ UNCHANGED <<year, all_race_laps, all_sprint_laps, race_csv, sprint_csv, csv_at_year_start>>
    /\ UNCHANGED <<qualy_vars, season_vars, race_vars, fmt_vars>>

\* line 47: a testing event is skipped
SkipTesting ==
    /\ pc = "events"
    /\ rnd <= MaxEvents
    /\ rnd' = rnd + 1
    /\ UNCHANGED <<pc, err, year, all_race_laps, all_sprint_laps, race_csv, sprint_csv, csv_at_year_start>>
    /\ UNCHANGED <<qualy_vars, season_vars, race_vars, fmt_vars>>

\* lines 49-88: one event; a session that fails to load returns None
ProcessEvent ==
    /\ pc = "events"
    /\ rnd <= MaxEvents
    /\ \E sprint_format, race_loaded, sprint_loaded \in BOOLEAN :
          LET r == load_session(year, rnd, "Race", race_loaded)
              s == load_session(year, rnd, "Sprint", sprint_loaded)
          IN /\ all_race_laps' =
                   IF ~IsNa(r) THEN Append(all_race_laps, Val(r)) ELSE all_race_laps
             /\ all_sprint_laps' =
                   IF sprint_format /\ ~IsNa(s) THEN Append(all_sprint_laps, Val(s))
                   ELSE all_sprint_laps
    /\ rnd' = rnd + 1
    /\ UNCHANGED <<pc, err, year, race_csv, sprint_csv, csv_at_year_start>>
    /\ UNCHANGED <<qualy_vars, season_vars, race_vars, fmt_vars>>

\* lines 38-88 raise outside load_session; lines 102-104 catch it
RaiseInYear ==
    /\ pc = "events"
    /\ err' = "Exception"
    /\ UNCHANGED <<all_race_laps, all_sprint_laps, race_csv, sprint_csv>>
    /\ UNCHANGED <<qualy_vars, season_vars, race_vars, fmt_vars>>
    /\ NextYear

\* lines 92-95, after the last completed event
SaveRace ==
    /\ pc = "events"
    /\ rnd > 1
    /\ race_csv' = IF all_race_laps /= <<>> THEN concat(all_race_laps) ELSE race_csv
    /\ pc' = "save_sprint"
    /\ UNCHANGED <<err, year, rnd, all_race_laps, all_sprint_laps, sprint_csv, csv_at_year_start>>
    /\ UNCHANGED <<qualy_vars, season_vars, race_vars, fmt_vars>>

\* line 94 raises: before the file is opened, or after it has been truncated
\* and some of the rows have been written; lines 102-104 catch it
SaveRaceRaises ==
    /\ pc = "events"
    /\ rnd > 1
    /\ all_race_laps /= <<>>
    /\ race_csv' \in {race_csv} \cup PartialWrites(concat(all_race_laps))
    /\ err' = "Exception"
    /\ UNCHANGED <<all_race_laps, all_sprint_laps, sprint_csv>>
    /\ UNCHANGED <<qualy_vars, season_vars, race_vars, fmt_vars>>
    /\ NextYear

\* lines 97-100
SaveSprint ==
    /\ pc = "save_sprint"
    /\ sprint_csv' = IF all_sprint_laps /= <<>> THEN concat(all_sprint_laps) ELSE sprint_csv
    /\ UNCHANGED <<err, all_race_laps, all_sprint_laps, race_csv>>
    /\ UNCHANGED <<qualy_vars, season_vars, race_vars, fmt_vars>>
    /\ NextYear

\* line 99 raises, as line 94 can; lines 102-104 catch it
SaveSprintRaises ==
    /\ pc = "save_sprint"
    /\ all_sprint_laps /= <<>>
    /\ sprint_csv' \in {sprint_csv} \cup PartialWrites(concat(all_sprint_laps))
    /\ err' = "Exception"
    /\ UNCHANGED <<all_race_laps, all_sprint_laps, race_csv>>
    /\ UNCHANGED <<qualy_vars, season_vars, race_vars, fmt_vars>>
    /\ NextYear

NextIngest ==
    \/ FetchScheduleFails
    \/ NoCompletedEvents
    \/ BeginEvents
    \/ SkipTesting
    \/ ProcessEvent
    \/ RaiseInYear
    \/ SaveRace
    \/ SaveRaceRaises
    \/ SaveSprint
    \/ SaveSprintRaises

SpecIngest == InitIngest /\ [][NextIngest]_vars

-----------------------------------------------------------------------------
(* Properties of the qualifying pipeline *)

\* A CSV cell that holds a lap time
ValidCell(c) == c.kind = "str" /\ c.text = "timedelta"

\* The valid lap times of driver d in the CSV rows
ValidTimesOf(d) ==
    {df[i].LapTime.ms : i \in {k \in 1..Len(df) : df[k].Driver = d /\ ValidCell(df[k].LapTime)}}

BestBuilt == pc \in {"best", "gaps", "raised"}

\* The row of best with Q_Pos = q, when there is exactly one
RowAtQPos(q) == best[CHOOSE i \in 1..Len(best) : best[i].Q_Pos = q]

\* C1: the best-lap table holds at most one row per driver, its rows are in
\* non-decreasing LapTime order and the i-th row has Q_Pos = i. (The "Biggest
\* Gap" sort of the teammate mode reorders the finished table afterwards; there
\* Q_Pos still numbers the rows 1..n in non-decreasing LapTime order.)
C1_BestLapRanking ==
    BestBuilt =>
        /\ \A i, j \in 1..Len(best) : best[i].Driver = best[j].Driver => i = j
        /\ sort_mode /= "Biggest Gap" =>
              /\ \A i \in 1..Len(best) : best[i].Q_Pos = i
              /\ \A i, j \in 1..Len(best) : i < j => best[i].LapTime <= best[j].LapTime
        /\ {best[i].Q_Pos : i \in 1..Len(best)} = 1..Len(best)
        /\ \A i, j \in 1..Len(best) :
              best[i].Q_Pos < best[j].Q_Pos => best[i].LapTime <= best[j].LapTime

C1_Witness ==
    /\ pc = "best"
    /\ Len(best) >= 2
    /\ Len(session) > Len(best)
    /\ best[1].LapTime < best[2].LapTime

\* C2: a driver with a valid lap has exactly one row, holding the minimum of
\* the driver's valid lap times; a driver without a valid lap has no row.
C2_BestIsMinimum ==
    BestBuilt =>
        \A d \in Drivers :
            LET rows == {i \in 1..Len(best) : best[i].Driver = d}
            IN IF ValidTimesOf(d) = {}
               THEN rows = {}
               ELSE /\ Cardinality(rows) = 1
                    /\ \A i \in rows : best[i].LapTime = Min(ValidTimesOf(d))

C2_Witness ==
    /\ pc = "best"
    /\ \E d \in Drivers : Cardinality(ValidTimesOf(d)) >= 2
    /\ \E d \in Drivers : ValidTimesOf(d) = {} /\ \E i \in 1..Len(df) : df[i].Driver = d

\* C3: in "Gap to Pole" mode on a non-empty table the Q_Pos = 1 row has gap 0
\* and every other row has gap LapTime - pole LapTime >= 0.
C3_GapToPole ==
    (pc = "gaps" /\ gap_mode = "Gap to Pole" /\ best /= <<>>) =>
        \A i \in 1..Len(best) :
            /\ ~IsNa(best[i].Gap)
            /\ best[i].Q_Pos = 1 => Val(best[i].Gap) = 0
            /\ Val(best[i].Gap) >= 0
            /\ Val(best[i].Gap) = best[i].LapTime - RowAtQPos(1).LapTime

C3_Witness ==
    /\ pc = "gaps"
    /\ gap_mode = "Gap to Pole"
    /\ Len(best) >= 2
    /\ \E i \in 1..Len(best) : Val(best[i].Gap) > 0

\* C4: in "Gap to Teammate" mode a row of a team with two or more rows has gap
\* LapTime - (fastest other member) when it is a fastest member (<= 0), and
\* LapTime - (fastest member) otherwise (>= 0); a row alone in its team has
\* gap 0; the two gaps of a two-member team are additive inverses.
C4_GapToTeammate ==
    (pc = "gaps" /\ gap_mode = "Gap to Teammate") =>
        \A i \in 1..Len(best) :
            LET team   == {k \in 1..Len(best) : best[k].Team = best[i].Team}
                others == team \ {i}
                gap    == Val(best[i].Gap)
            IN /\ ~IsNa(best[i].Gap)
               /\ others = {} => gap = 0
               /\ others /= {} =>
                    LET fastest     == Min({best[k].LapTime : k \in team})
                        next_fastest == Min({best[k].LapTime : k \in others})
                    IN IF best[i].LapTime = fastest
                       THEN gap = best[i].LapTime - next_fastest /\ gap <= 0
                       ELSE gap = best[i].LapTime - fastest /\ gap >= 0
               /\ Cardinality(team) = 2 =>
                    \A k \in others : gap = 0 - Val(best[k].Gap)

C4_Witness ==
    /\ pc = "gaps"
    /\ gap_mode = "Gap to Teammate"
    /\ \E i, j \in 1..Len(best) :
          /\ i /= j
          /\ best[i].Team = best[j].Team
          /\ Val(best[i].Gap) < 0
          /\ Val(best[j].Gap) > 0
    /\ \E i \in 1..Len(best) : \A k \in 1..Len(best) : best[k].Team = best[i].Team => k = i

\* C8: a session without a valid lap time yields an empty result in both gap
\* modes and no step of the pipeline raises.
C8_EmptySessionNoError ==
    (\A d \in Drivers : ValidTimesOf(d) = {}) =>
        /\ err = ""
        /\ pc /= "raised"
        /\ best = <<>>

\* C12: in "Gap to Pole" mode the row with Q_Pos = 1 is rendered with the gap
\* label "POLE", and no row with Q_Pos > 1 is: every such row is rendered as
\* "+<gap>s", the gap with three decimals.
C12_PoleLabelOnlyAtQPos1 ==
    (pc = "rendered" /\ gap_mode = "Gap to Pole") =>
        \A i \in 1..Len(best) :
            /\ best[i].Q_Pos = 1 => gap_strs[i] = <<"P", "O", "L", "E">>
            /\ best[i].Q_Pos > 1 =>
                  /\ gap_strs[i] /= <<"P", "O", "L", "E">>
                  /\ gap_strs[i] = <<"+">> \o Format3f(Val(best[i].Gap)) \o <<"s">>

\* What the render loop does do: the row with Q_Pos = 1 is labelled "POLE",
\* and so is every other row whose best lap equals the pole lap; the rows
\* that are slower than pole are rendered as "+<gap>s".
PoleLabelIffZeroGap ==
    (pc = "rendered" /\ gap_mode = "Gap to Pole") =>
        /\ Len(gap_strs) = Len(best)
        /\ \A i \in 1..Len(best) :
              /\ best[i].Q_Pos = 1 => gap_strs[i] = <<"P", "O", "L", "E">>
              /\ gap_strs[i] = <<"P", "O", "L", "E">> <=> best[i].LapTime = best[1].LapTime
              /\ best[i].LapTime > best[1].LapTime =>
                    gap_strs[i] = <<"+">> \o Format3f(best[i].LapTime - best[1].LapTime) \o <<"s">>

-----------------------------------------------------------------------------
(* Properties of the season aggregation *)

SeasonCalculated == pc \in {"calculated", "recalculated"}

\* The (round, session) groups in which driver d has rows
GroupsOf(t, d) == {<<t[i].RoundNumber, t[i].Session>> : i \in {k \in 1..Len(t) : t[k].Driver = d}}

\* The points of d's group k: the largest points value on its rows, 0 when
\* no row of the group carries one
Collapsed(t, d, k) ==
    LET pts == {Val(t[i].OfficialPoints) :
                  i \in {j \in 1..Len(t) : /\ t[j].Driver = d
                                           /\ t[j].RoundNumber = k[1]
                                           /\ t[j].Session = k[2]
                                           /\ ~IsNa(t[j].OfficialPoints)}}
    IN IF pts = {} THEN 0 ELSE Max(pts)

RECURSIVE SumCollapsed(_, _, _)
SumCollapsed(t, d, K) ==
    IF K = {} THEN 0
    ELSE LET k == CHOOSE x \in K : TRUE
         IN Collapsed(t, d, k) + SumCollapsed(t, d, K \ {k})

\* Group k1 is at or before group k2: RoundNumber ascending, Sprint before Race
AtOrBefore(k1, k2) ==
    \/ k1[1] < k2[1]
    \/ k1[1] = k2[1] /\ (k1[2] = "Sprint" \/ k2[2] = "Race")

\* C5: every driver's SeasonTotal is the sum of the collapsed points of the
\* driver's (RoundNumber, Session) groups, and is the same for every
\* permutation of the input rows.
C5_SeasonTotalIsSum ==
    SeasonCalculated =>
        /\ \A d \in SeasonDrivers :
              GroupsOf(year_df, d) /= {} =>
                 \E i \in 1..Len(season_results) : season_results[i].Driver = d
        /\ \A i \in 1..Len(season_results) :
              season_results[i].SeasonTotal =
                 SumCollapsed(year_df, season_results[i].Driver,
                              GroupsOf(year_df, season_results[i].Driver))
        /\ \A p \in RowPerms[Len(year_df)] :
              LET permuted == GroupedSorted(Permute(year_df, p))
              IN \A i \in 1..Len(season_results) :
                    SeasonTotalOf(permuted, season_results[i].Driver)
                       = season_results[i].SeasonTotal

C5_Witness ==
    /\ pc = "calculated"
    /\ \E i \in 1..Len(season_results) :
          /\ season_results[i].SeasonTotal = 43
          /\ Cardinality(GroupsOf(year_df, season_results[i].Driver)) = 2
    /\ \E d \in SeasonDrivers : Cardinality(GroupsOf(year_df, d)) = 1

\* C6: a rerun over a table that gained copies of existing rows leaves every
\* RunningTotal and every SeasonTotal as they were.
C6_DuplicatesIdempotent ==
    [][RerunWithDuplicate =>
          /\ Len(season_results') = Len(season_results)
          /\ \A i \in 1..Len(season_results) :
                /\ season_results'[i].Driver = season_results[i].Driver
                /\ season_results'[i].RoundNumber = season_results[i].RoundNumber
                /\ season_results'[i].Session = season_results[i].Session
                /\ season_results'[i].RunningTotal = season_results[i].RunningTotal
                /\ season_results'[i].SeasonTotal = season_results[i].SeasonTotal
          /\ current_stats' = current_stats]_vars

C6_Witness ==
    /\ pc = "recalculated"
    /\ Len(year_df) = 3
    /\ \E i, j \in 1..Len(year_df) :
          /\ i /= j
          /\ year_df[i] = year_df[j]
          /\ ~IsNa(year_df[i].OfficialPoints)
    /\ \E i \in 1..Len(season_results) :
          /\ season_results[i].SeasonTotal = 43
          /\ season_results[i].RunningTotal = Some(43)

\* C7: at every group of a driver RunningTotal is the sum of the driver's
\* collapsed points over the driver's groups at or before it (RoundNumber
\* ascending, Sprint before Race); rounds without rows of the driver add 0.
\* RunningTotal is read as format_pts shows it.
C7_RunningTotalIsPrefixSum ==
    SeasonCalculated =>
        \A i \in 1..Len(season_results) :
            LET w == season_results[i]
                k == <<w.RoundNumber, w.Session>>
            IN format_pts(w.RunningTotal) =
                 SumCollapsed(year_df, w.Driver,
                    {g \in GroupsOf(year_df, w.Driver) : AtOrBefore(g, k)})

\* What the running sum does do: at every group whose points are present it
\* is the sum of the driver's present collapsed points at or before the group,
\* whatever other rounds and drivers the table holds.
RunningTotalOfPresentPoints ==
    SeasonCalculated =>
        \A i \in 1..Len(season_results) :
            LET w == season_results[i]
                k == <<w.RoundNumber, w.Session>>
            IN ~IsNa(w.OfficialPoints) =>
                 w.RunningTotal =
                   Some(SumCollapsed(year_df, w.Driver,
                          {g \in GroupsOf(year_df, w.Driver) : AtOrBefore(g, k)}))

\* The driver's groups strictly before group k
GroupsBefore(t, d, k) == {g \in GroupsOf(t, d) : g /= k /\ AtOrBefore(g, k)}

\* The driver's group immediately preceding group k, where there is one
PrecedingGroup(t, d, k) ==
    CHOOSE g \in GroupsBefore(t, d, k) :
        \A h \in GroupsBefore(t, d, k) : AtOrBefore(h, g)

\* The row of season_results for driver d at group g
ResultRowAt(d, g) ==
    season_results[CHOOSE i \in 1..Len(season_results) :
                      /\ season_results[i].Driver = d
                      /\ season_results[i].RoundNumber = g[1]
                      /\ season_results[i].Session = g[2]]

\* C11: a group whose OfficialPoints is absent counts as 0: the driver's
\* RunningTotal there is the RunningTotal at the driver's immediately
\* preceding group (0 if there is none), and the driver's later running
\* totals and SeasonTotal are the sums of the driver's present points.
\* RunningTotal is read as format_pts shows it.
C11_AbsentPointsCountAsZero ==
    SeasonCalculated =>
        \A i \in 1..Len(season_results) :
            LET w == season_results[i]
                k == <<w.RoundNumber, w.Session>>
            IN IsNa(w.OfficialPoints) =>
                 /\ format_pts(w.RunningTotal) =
                      IF GroupsBefore(year_df, w.Driver, k) = {} THEN 0
                      ELSE format_pts(ResultRowAt(w.Driver,
                              PrecedingGroup(year_df, w.Driver, k)).RunningTotal)
                 /\ \A j \in 1..Len(season_results) :
                       LET v == season_results[j]
                           h == <<v.RoundNumber, v.Session>>
                       IN (v.Driver = w.Driver /\ h /= k /\ AtOrBefore(k, h)
                             /\ ~IsNa(v.OfficialPoints)) =>
                            v.RunningTotal =
                              Some(SumCollapsed(year_df, v.Driver,
                                     {g \in GroupsOf(year_df, v.Driver) : AtOrBefore(g, h)}))
                 /\ w.SeasonTotal =
                      SumCollapsed(year_df, w.Driver, GroupsOf(year_df, w.Driver))

\* What the code does do with an absent group: the driver's later running
\* totals and SeasonTotal skip it, and its own RunningTotal is NaN.
AbsentPointsSkippedInLaterTotals ==
    SeasonCalculated =>
        \A i \in 1..Len(season_results) :
            LET w == season_results[i]
                k == <<w.RoundNumber, w.Session>>
            IN IsNa(w.OfficialPoints) =>
                 /\ IsNa(w.RunningTotal)
                 /\ \A j \in 1..Len(season_results) :
                       LET v == season_results[j]
                           h == <<v.RoundNumber, v.Session>>
                       IN (v.Driver = w.Driver /\ h /= k /\ AtOrBefore(k, h)
                             /\ ~IsNa(v.OfficialPoints)) =>
                            v.RunningTotal =
                              Some(SumCollapsed(year_df, v.Driver,
                                     {g \in GroupsOf(year_df, v.Driver) : AtOrBefore(g, h)}))
                 /\ w.SeasonTotal =
                      SumCollapsed(year_df, w.Driver, GroupsOf(year_df, w.Driver))

-----------------------------------------------------------------------------
(* Properties of the handling of malformed lap times *)

\* The qualifying half of C9: parse_time turns every NaN or malformed cell
\* into None without raising, and dropna leaves exactly the rows with a valid
\* lap time, in file order.
ParseTimeTreatsMalformedAsMissing ==
    pc = "parsed" =>
        /\ err = ""
        /\ session = [i \in 1..Len(SelectSeq(df, LAMBDA w : ValidCell(w.LapTime))) |->
                         [SelectSeq(df, LAMBDA w : ValidCell(w.LapTime))[i]
                             EXCEPT !.LapTime = Some(@.ms)]]

\* The valid lap times of driver d in the race session, summed
RECURSIVE SumValidOf(_, _)
SumValidOf(t, d) ==
    IF t = <<>> THEN 0
    ELSE (IF Head(t).Driver = d /\ ValidCell(Head(t).LapTime) THEN Head(t).LapTime.ms ELSE 0)
         + SumValidOf(Tail(t), d)

\* C9: a lap row with a malformed LapTime is treated as missing data (its time
\* is null and it is left out of the time totals) and never makes the
\* computation raise; stated for the race pipeline's LapTimeSeconds.
C9_MalformedNeverRaises ==
    /\ err = ""
    /\ pc /= "raised"
    /\ pc = "prepared" =>
          /\ \A i \in 1..Len(race_session) :
                ~ValidCell(race_session[i].LapTime) => IsNa(race_session[i].LapTimeSeconds)
          /\ \A i \in 1..Len(total_times) :
                total_times[i].TotalRaceTime = SumValidOf(race_session, total_times[i].Driver)

-----------------------------------------------------------------------------
(* Properties of fmt_time *)

IsDigit(c) == \E n \in 0..9 : Digit(n) = c

DigitValue(c) == CHOOSE n \in 0..9 : Digit(n) = c

AllDigits(txt) == \A i \in 1..Len(txt) : IsDigit(txt[i])

\* The number a text of digits denotes
RECURSIVE ReadNat(_)
ReadNat(txt) ==
    IF txt = <<>> THEN 0
    ELSE 10 * ReadNat(SubSeq(txt, 1, Len(txt) - 1)) + DigitValue(txt[Len(txt)])

\* txt is M:SS.mmm for the duration ms: minutes unpadded, exactly 2 digits of
\* seconds below 60, exactly 3 digits of milliseconds
IsMinuteForm(txt, ms) ==
    \E k \in 2..Len(txt) :
        LET minutes == SubSeq(txt, 1, k - 1)
            seconds == SubSeq(txt, k + 1, k + 2)
            millis  == SubSeq(txt, k + 4, k + 6)
        IN /\ txt[k] = ":"
           /\ Len(txt) = k + 6
           /\ txt[k + 3] = "."
           /\ AllDigits(minutes) /\ AllDigits(seconds) /\ AllDigits(millis)
           /\ minutes[1] /= "0"
           /\ ReadNat(seconds) < 60
           /\ ReadNat(minutes) * 60000 + ReadNat(seconds) * 1000 + ReadNat(millis) = ms

\* txt is the seconds of ms in w digits, a point and exactly 3 digits of
\* milliseconds, with no minute component
IsSecondForm(txt, ms, w) ==
    LET seconds == SubSeq(txt, 1, w)
        millis  == SubSeq(txt, w + 2, w + 4)
    IN /\ Len(txt) = w + 4
       /\ txt[w + 1] = "."
       /\ AllDigits(seconds) /\ AllDigits(millis)
       /\ ReadNat(seconds) < 60
       /\ ReadNat(seconds) * 1000 + ReadNat(millis) = ms

\* C10 as stated: a duration >= 60 s is rendered M:SS.mmm, a duration < 60 s
\* is rendered SS.mmm with no minute component, a missing duration is
\* rendered "-"; the seconds field is below 60.
C10_FmtTimeAsStated ==
    pc = "formatted" =>
        IF IsNa(fmt_s) THEN fmt_out = <<"-">>
        ELSE /\ fmt_out /= <<"-">>
             /\ Val(fmt_s) >= 60000 => IsMinuteForm(fmt_out, Val(fmt_s))
             /\ Val(fmt_s) < 60000 => IsSecondForm(fmt_out, Val(fmt_s), 2)

\* C10 as amended: below 60 s the seconds are not zero-padded, so a duration
\* below 10 s is rendered S.mmm with one digit of seconds, and a duration of
\* 10 s to below 60 s is rendered SS.mmm; the rest as stated.
C10_FmtTime ==
    pc = "formatted" =>
        IF IsNa(fmt_s) THEN fmt_out = <<"-">>
        ELSE /\ fmt_out /= <<"-">>
             /\ Val(fmt_s) >= 60000 => IsMinuteForm(fmt_out, Val(fmt_s))
             /\ Val(fmt_s) < 60000 =>
                   IsSecondForm(fmt_out, Val(fmt_s), IF Val(fmt_s) < 10000 THEN 1 ELSE 2)

C10_Witness ==
    /\ pc = "formatted"
    /\ fmt_s = Some(65432)
    /\ fmt_out = <<"1", ":", "0", "5", ".", "4", "3", "2">>


-----------------------------------------------------------------------------
(* Properties of the yearly saves of ingest.py *)

\* An exception escaped the processing of `year` in this step
ExceptionEscapes == year' = year + 1 /\ err' = "Exception"

\* C13: every write of the race (resp. sprint) CSV holds all the lap rows
\* accumulated since the start of the run and is a superset of what the file
\* held; an exception while processing a year leaves on disk exactly what the
\* last earlier year that reached the save step left there, so saved data is
\* never lost or truncated.
C13_SavedDataNeverLost ==
    [][/\ race_csv' /= race_csv =>
             /\ race_csv' = concat(all_race_laps')
             /\ Range(race_csv) \subseteq Range(race_csv')
       /\ sprint_csv' /= sprint_csv =>
             /\ sprint_csv' = concat(all_sprint_laps')
             /\ Range(sprint_csv) \subseteq Range(sprint_csv')
       /\ ExceptionEscapes =>
             /\ race_csv' = csv_at_year_start[1]
             /\ sprint_csv' = csv_at_year_start[2]]_vars

\* What the save step does do: a to_csv that returns has written all the
\* accumulated rows, a superset of what the file held, and an exception before
\* the save step leaves both files as they were when the year began.
CompletedWritesKeepEverything ==
    [][/\ SaveRace =>
             /\ all_race_laps /= <<>> => race_csv' = concat(all_race_laps)
             /\ Range(race_csv) \subseteq Range(race_csv')
       /\ SaveSprint =>
             /\ all_sprint_laps /= <<>> => sprint_csv' = concat(all_sprint_laps)
             /\ Range(sprint_csv) \subseteq Range(sprint_csv')
       /\ (FetchScheduleFails \/ NoCompletedEvents \/ RaiseInYear) =>
             /\ race_csv' = csv_at_year_start[1]
             /\ sprint_csv' = csv_at_year_start[2]]_vars

=============================================================================
